---- MODULE Spec2Model ----
(***************************************************************************)
(* Model of scripts/conflict-resolution.py: the ConflictResolver class     *)
(* (detect_conflicts, the three resolve_* strategies, the recursive JSON   *)
(* merge, resolve_all_conflicts, commit_resolution) and main().            *)
(*                                                                         *)
(* Two specifications share the module:                                    *)
(*   SpecMerge  the pure JSON merge applied to every pair of documents of  *)
(*              a bounded universe;                                        *)
(*   Spec       one run of main() against a repository left conflicted by  *)
(*              a merge, with git and the file system as the environment.  *)
(***************************************************************************)
EXTENDS Integers, Sequences, FiniteSets, TLC

VARIABLES
    \* ---- the pure merge (SpecMerge) ----
    main_data,      \* json.loads of the HEAD version
    head_data,      \* json.loads of the MERGE_HEAD version
    merged_data,    \* the merged document
    mpc,            \* "input" | "merged" | "off"
    \* ---- the repository (environment of the run) ----
    inRepo,         \* the working directory is inside a git repository
    merge_concluded,\* the merge commit was made: HEAD moved, MERGE_HEAD is gone
    worktree,       \* conflicted path -> content of the working-tree file
    index,          \* conflicted path -> staged content, or Unmerged
    \* ---- the process ----
    pc,             \* position of main()
    conflicts,      \* the local list `conflicts` of resolve_all_conflicts
    self_conflicts, \* self.conflicts
    i,              \* position of the for loop in `conflicts` (1-based)
    resolved_count, \* resolved_count
    success,        \* return value of resolve_all_conflicts
    commit_result,  \* return value of commit_resolution ("none" before it returns)
    exit_status,    \* status given to sys.exit (-1 while running)
    \* ---- history of the run ----
    attempts,       \* path -> strategies called for it, in call order
    writers,        \* path -> strategies that wrote its working-tree file
    reported,       \* path -> "none" | "resolved" | "unresolved"
    raised,         \* the exception that reached main ("none" if none did)
    commits,        \* number of `git commit` calls that were made
    calls,          \* the Gateway operations the run has invoked
    listing,        \* the conflict listing of the run: "none" | "ok" | "failed"
    \* ---- across invocations ----
    run,            \* number of this invocation of main() (1-based)
    prior_resolved, \* an earlier invocation resolved every conflict
    gateway         \* per path, how its file write and its `git add` behave

mergeVars == <<main_data, head_data, merged_data, mpc>>
repoVars == <<inRepo, merge_concluded, worktree, index>>
procVars == <<pc, conflicts, self_conflicts, i, resolved_count, success,
              commit_result, exit_status>>
histVars == <<attempts, writers, reported, raised, commits, calls, listing>>
runVars == <<run, prior_resolved, gateway>>
vars == <<mergeVars, repoVars, procVars, histVars, runVars>>

----------------------------------------------------------------------------
(* JSON values.  A scalar, a list, or a dict (a function from its keys).   *)

Num(n) == [t |-> "num", v |-> n]
List(s) == [t |-> "list", v |-> s]
Dict(f) == [t |-> "dict", kv |-> f]

\* isinstance(x, dict)
IsDict(x) == x.t = "dict"

NoData == [t |-> "none"]

\* Depth of nesting of the documents drawn as inputs.
MaxDepth == 2

Keys == {"a", "b"}
Leaves == {Num(1), Num(2), List(<<Num(1)>>)}

\* The functions from a subset of Keys with key "a" drawn from valsA and key "b"
\* from valsB.
PartialMaps(valsA, valsB) ==
    { f \in UNION { [S -> valsA \cup valsB] : S \in SUBSET Keys } :
        /\ "a" \in DOMAIN f => f["a"] \in valsA
        /\ "b" \in DOMAIN f => f["b"] \in valsB }

\* Dicts of nesting depth <= d: key "a" may hold a nested dict, key "b" a leaf.
RECURSIVE DictsUpTo(_)
DictsUpTo(d) ==
    IF d = 0 THEN { Dict(<<>>) }
    ELSE { Dict(f) : f \in PartialMaps(Leaves \cup DictsUpTo(d - 1), Leaves) }

\* The documents json.loads can return here: dicts, and non-dict roots.
Documents == DictsUpTo(MaxDepth) \cup Leaves

----------------------------------------------------------------------------
(* The structured merge.                                                   *)

\* A plausible slip: the keys only the incoming side has are not added.
merge_dict_drop_incoming(dict1, dict2) == dict1

\* A plausible slip: on a conflict the incoming value wins.
RECURSIVE merge_dict_prefer_incoming(_, _)
merge_dict_prefer_incoming(dict1, dict2) ==
    [key \in DOMAIN dict1 \cup DOMAIN dict2 |->
        IF key \notin DOMAIN dict2 THEN dict1[key]
        ELSE IF key \in DOMAIN dict1 /\ IsDict(dict1[key]) /\ IsDict(dict2[key])
             THEN Dict(merge_dict_prefer_incoming(dict1[key].kv, dict2[key].kv))
             ELSE dict2[key]]

\* ConflictResolver._merge_dict_recursive on the key/value functions of two dicts.
RECURSIVE merge_dict_recursive(_, _)
merge_dict_recursive(dict1, dict2) ==
    [key \in DOMAIN dict1 \cup DOMAIN dict2 |->
        IF key \notin DOMAIN dict1 THEN dict2[key]
        ELSE IF key \in DOMAIN dict2 /\ IsDict(dict1[key]) /\ IsDict(dict2[key])
             THEN Dict(merge_dict_recursive(dict1[key].kv, dict2[key].kv))
             ELSE dict1[key]]

\* The top level of the merge in resolve_json_conflict (lines 100-111).
merge_json(main, head) ==
    IF IsDict(main) /\ IsDict(head)
    THEN Dict([key \in DOMAIN main.kv \cup DOMAIN head.kv |->
                 IF key \notin DOMAIN main.kv THEN head.kv[key]
                 ELSE IF key \in DOMAIN head.kv
                         /\ IsDict(main.kv[key]) /\ IsDict(head.kv[key])
                      THEN Dict(merge_dict_recursive(main.kv[key].kv, head.kv[key].kv))
                      ELSE main.kv[key]])
    ELSE main

----------------------------------------------------------------------------
(* Strings.  A path is named by a string and spelled as its characters.    *)

UpperCase == <<"A","B","C","D","E","F","G","H","I","J","K","L","M",
               "N","O","P","Q","R","S","T","U","V","W","X","Y","Z">>
LowerCase == <<"a","b","c","d","e","f","g","h","i","j","k","l","m",
               "n","o","p","q","r","s","t","u","v","w","x","y","z">>

\* str.lower()
lower(s) ==
    [n \in DOMAIN s |->
        IF \E u \in DOMAIN UpperCase : UpperCase[u] = s[n]
        THEN LowerCase[CHOOSE u \in DOMAIN UpperCase : UpperCase[u] = s[n]]
        ELSE s[n]]

\* str.endswith(suffix)
endswith(s, suffix) ==
    /\ Len(suffix) <= Len(s)
    /\ SubSeq(s, Len(s) - Len(suffix) + 1, Len(s)) = suffix

\* sub in s
contains(s, sub) ==
    \E n \in 1..(Len(s) - Len(sub) + 1) : SubSeq(s, n, n + Len(sub) - 1) = sub

readme_md == <<"r","e","a","d","m","e",".","m","d">>
dot_json == <<".","j","s","o","n">>
config == <<"c","o","n","f","i","g">>

\* The paths of the repository.
Paths == {"README.md", "Config/readme.md", "app/ReadMe.md", "config/README.md",
          "docs/myreadme.md", "package.json", "settings-config.yaml",
          "app.json", "server.js"}

Spelling(p) ==
    CASE p = "README.md" -> <<"R","E","A","D","M","E",".","m","d">>
      [] p = "Config/readme.md" ->
            <<"C","o","n","f","i","g","/","r","e","a","d","m","e",".","m","d">>
      [] p = "app/ReadMe.md" ->
            <<"a","p","p","/","R","e","a","d","M","e",".","m","d">>
      [] p = "config/README.md" ->
            <<"c","o","n","f","i","g","/","R","E","A","D","M","E",".","m","d">>
      [] p = "docs/myreadme.md" ->
            <<"d","o","c","s","/","m","y","r","e","a","d","m","e",".","m","d">>
      [] p = "package.json" ->
            <<"p","a","c","k","a","g","e",".","j","s","o","n">>
      [] p = "settings-config.yaml" ->
            <<"s","e","t","t","i","n","g","s","-","c","o","n","f","i","g",
              ".","y","a","m","l">>
      [] p = "app.json" -> <<"a","p","p",".","j","s","o","n">>
      [] p = "server.js" -> <<"s","e","r","v","e","r",".","j","s">>

\* A plausible slip: the case of the path is not folded.
is_readme_case_sensitive(filepath) == endswith(Spelling(filepath), readme_md)

\* filepath.lower().endswith('readme.md')                 (lines 59, 175)
is_readme(filepath) == endswith(lower(Spelling(filepath)), readme_md)

\* filepath.endswith('.json') or 'config' in filepath.lower()   (lines 82, 179)
is_json_config(filepath) ==
    \/ endswith(Spelling(filepath), dot_json)
    \/ contains(lower(Spelling(filepath)), config)

----------------------------------------------------------------------------
(* File contents.                                                          *)

\* A file that is not JSON: its characters, "CR" and "LF" naming the two
\* line-ending characters.
Text(chars) == [t |-> "text", s |-> chars]
\* A JSON file: the document it holds and the layout it is written in.
Json(doc, layout) == [t |-> "json", doc |-> doc, layout |-> layout]
\* The path does not exist (at a revision, or in the working tree).
Missing == [t |-> "missing"]
\* The working-tree file git leaves for a conflicted path.
Markers == [t |-> "markers"]
\* A file opened for writing whose write did not complete.
Truncated == [t |-> "truncated"]
\* The index entry of a conflicted path (stages 1-3, nothing staged).
Unmerged == [t |-> "unmerged"]

\* subprocess.run(..., text=True): stdout is decoded with universal newlines,
\* "\r\n" and then "\r" become "\n" (line 40).
RECURSIVE translate_newlines(_)
translate_newlines(chars) ==
    IF chars = <<>> THEN <<>>
    ELSE IF Head(chars) = "CR"
         THEN IF Len(chars) >= 2 /\ chars[2] = "LF"
              THEN <<"LF">> \o translate_newlines(Tail(Tail(chars)))
              ELSE <<"LF">> \o translate_newlines(Tail(chars))
         ELSE <<Head(chars)>> \o translate_newlines(Tail(chars))

\* What the process receives for a blob that git prints.
stdout_of(content) ==
    IF content.t = "text" THEN Text(translate_newlines(content.s)) ELSE content

\* The HEAD and MERGE_HEAD trees of the merge that stopped with conflicts.
FixtureHead ==
    [p \in Paths |->
        CASE p = "app.json" -> Missing
          [] p = "package.json" -> Json(Dict([k \in {"a"} |-> Num(1)]), "compact")
          [] p = "settings-config.yaml" -> Text(<<"y", "LF">>)
          [] OTHER -> Text(<<"m", "LF">>)]

FixtureMergeHead ==
    [p \in Paths |->
        CASE p = "Config/readme.md" -> Missing
          [] p = "app/ReadMe.md" -> Text(<<"f", "CR", "LF">>)
          [] p \in {"package.json", "app.json"} ->
                Json(Dict([k \in {"a", "b"} |-> Num(2)]), "compact")
          [] p = "settings-config.yaml" -> Text(<<"z", "LF">>)
          [] OTHER -> Text(<<"f", "LF">>)]

\* The paths the run can touch: those the merge left conflicted.
Tracked == DOMAIN index

\* HEAD:path and MERGE_HEAD:path.  The merge commit makes the index the new
\* HEAD and removes MERGE_HEAD.
headRev == IF merge_concluded THEN index ELSE [p \in Tracked |-> FixtureHead[p]]
mergeRev == IF merge_concluded THEN [p \in Tracked |-> Missing]
            ELSE [p \in Tracked |-> FixtureMergeHead[p]]

\* Number of paths a merge leaves conflicted.
MaxConflicts == 2

----------------------------------------------------------------------------
(* The Gateway: git and the file system as the run sees them.              *)

\* _run_git_command(['git', 'show', rev + ':' + filepath]): git exits non-zero
\* exactly when the path does not exist at the revision.
show(rev, filepath) ==
    IF rev[filepath] = Missing
    THEN [returncode |-> 128, stdout |-> Missing]
    ELSE [returncode |-> 0, stdout |-> stdout_of(rev[filepath])]

\* open(full_path, 'w') and the write: the open can fail (file untouched), and
\* the write can fail after the open truncated the file.  A write that succeeds
\* stores the text as given (os.linesep is "\n").
WriteOutcomes == {"ok", "open_fails", "write_fails"}

\* The environment of a path: any outcome at every call, or one behaviour of
\* the file system and of `git add` that every call on the path meets.
AnyOutcome == [fixed |-> FALSE, w |-> "ok", a |-> TRUE]
FixedOutcomes == [fixed : {TRUE}, w : WriteOutcomes, a : BOOLEAN]
WritesOf(filepath) ==
    IF gateway[filepath].fixed THEN {gateway[filepath].w} ELSE WriteOutcomes
AddsOf(filepath) ==
    IF gateway[filepath].fixed THEN {gateway[filepath].a} ELSE BOOLEAN

\* json.loads raises on anything that is not JSON.
json_loads_raises(stdout) == stdout.t # "json"
json_loads(stdout) == stdout.doc

\* json.dump(merged_data, f, indent=2, ensure_ascii=False); f.write('\n')
json_dump(doc) == Json(doc, "indent2")

\* The paths `git diff --name-only --diff-filter=U` prints.
UnmergedPaths == {p \in Tracked : index[p] = Unmerged}

\* The paths `git diff --cached --name-only` prints.
StagedPaths == {p \in Tracked : index[p] # headRev[p]}

\* The orders in which a set of paths can be listed.
Orderings(S) ==
    { q \in [1..Cardinality(S) -> S] : \A m, n \in DOMAIN q : m # n => q[m] # q[n] }

----------------------------------------------------------------------------
(* resolve_all_conflicts.                                                  *)

\* A plausible slip: the JSON/config rule is tested before the README rule.
classify_json_first(filepath) ==
    IF is_json_config(filepath) THEN "json"
    ELSE IF is_readme(filepath) THEN "readme"
    ELSE "default"

\* The strategy the if/elif chain of the loop body calls first (lines 174-184).
classify(filepath) ==
    IF is_readme(filepath) THEN "readme"
    ELSE IF is_json_config(filepath) THEN "json"
    ELSE "default"

\* A plausible slip: one resolved file is enough.
run_succeeded_any(count, list) == count >= 1

\* return resolved_count == len(conflicts)                      (line 192)
run_succeeded(count, list) == count = Len(list)

\* The file effects of a strategy that got `content` to write to `filepath`:
\* the write with outcome w, then `git add` with exit code 0 iff a.
WriteAndStage(filepath, content, strategy, w, a) ==
    /\ worktree' = [worktree EXCEPT ![filepath] =
                      IF w = "ok" THEN content
                      ELSE IF w = "write_fails" THEN Truncated ELSE @]
    /\ writers' = IF w = "open_fails" THEN writers
                  ELSE [writers EXCEPT ![filepath] = Append(@, strategy)]
    /\ index' = IF w = "ok" /\ a THEN [index EXCEPT ![filepath] = content]
                ELSE index
    /\ calls' = calls \cup {"show", "write"} \cup (IF w = "ok" THEN {"add"} ELSE {})

\* The rest of the loop body once `resolved` is final (lines 186-189).
Record(filepath, resolved) ==
    /\ resolved_count' = IF resolved THEN resolved_count + 1 ELSE resolved_count
    /\ reported' = [reported EXCEPT ![filepath] =
                      IF resolved THEN "resolved" ELSE "unresolved"]
    /\ i' = i + 1
    /\ pc' = "loop"
    /\ UNCHANGED raised

\* The classified strategy returned False: `if not resolved` (line 183).
FallThrough ==
    /\ pc' = "fallback"
    /\ UNCHANGED <<i, resolved_count, reported, raised>>

\* An exception leaves the strategy and resolve_all_conflicts.
Raise(name) ==
    /\ pc' = "raised"
    /\ raised' = name
    /\ UNCHANGED <<i, resolved_count, reported>>

\* A constructor that swallows the failure of `git rev-parse` and lets the
\* run go on.
construct_ignores_error ==
    /\ pc = "start"
    /\ pc' = "resolve_all"
    /\ self_conflicts' = <<>>
    /\ calls' = calls \cup {"rev-parse"}
    /\ UNCHANGED <<mergeVars, repoVars, conflicts, i, resolved_count, success,
                   commit_result, exit_status, attempts, writers, reported, raised,
                   commits, listing, runVars>>

\* main() constructs the resolver: __init__ and _get_repo_root (lines 21-36, 218).
construct ==
    /\ pc = "start"
    /\ IF inRepo
       THEN /\ pc' = "resolve_all"
            /\ raised' = raised
       ELSE /\ pc' = "raised"
            /\ raised' = "RuntimeError"
    /\ self_conflicts' = <<>>
    /\ calls' = calls \cup {"rev-parse"}
    /\ UNCHANGED <<mergeVars, repoVars, conflicts, i, resolved_count, success,
                   commit_result, exit_status, attempts, writers, reported, commits,
                   listing, runVars>>

\* A detection whose listing has no unmerged filter: it names every path of
\* the merge, resolved or not.
detect_conflicts_unfiltered ==
    /\ pc = "resolve_all"
    /\ \E returncode_ok \in BOOLEAN :
        \E stdout \in Orderings(Tracked) :
          /\ conflicts' = IF returncode_ok THEN stdout ELSE <<>>
          /\ self_conflicts' = IF returncode_ok THEN stdout ELSE self_conflicts
          /\ listing' = IF returncode_ok THEN "ok" ELSE "failed"
    /\ IF conflicts' = <<>>
       THEN /\ success' = TRUE
            /\ pc' = "returned"
       ELSE /\ success' = success
            /\ pc' = "loop"
    /\ i' = 1
    /\ resolved_count' = 0
    /\ calls' = calls \cup {"diff --diff-filter=U"}
    /\ UNCHANGED <<mergeVars, repoVars, commit_result, exit_status, attempts, writers,
                   reported, raised, commits, runVars>>

\* A detection that does not look at the return code of the listing and
\* takes whatever paths it names.
detect_conflicts_unchecked ==
    /\ pc = "resolve_all"
    /\ \E returncode_ok \in BOOLEAN :
        \E stdout \in Orderings(UnmergedPaths) :
          /\ conflicts' = stdout
          /\ self_conflicts' = stdout
          /\ listing' = IF returncode_ok THEN "ok" ELSE "failed"
    /\ IF conflicts' = <<>>
       THEN /\ success' = TRUE
            /\ pc' = "returned"
       ELSE /\ success' = success
            /\ pc' = "loop"
    /\ i' = 1
    /\ resolved_count' = 0
    /\ calls' = calls \cup {"diff --diff-filter=U"}
    /\ UNCHANGED <<mergeVars, repoVars, commit_result, exit_status, attempts, writers,
                   reported, raised, commits, runVars>>

\* detect_conflicts (lines 42-49) and the head of resolve_all_conflicts
\* (lines 159-169).
detect_conflicts ==
    /\ pc = "resolve_all"
    /\ \E returncode_ok \in BOOLEAN :
        \E stdout \in Orderings(UnmergedPaths) :
          /\ conflicts' = IF returncode_ok THEN stdout ELSE <<>>
          /\ self_conflicts' = IF returncode_ok THEN stdout ELSE self_conflicts
          /\ listing' = IF returncode_ok THEN "ok" ELSE "failed"
    /\ IF conflicts' = <<>>
       THEN /\ success' = TRUE
            /\ pc' = "returned"
       ELSE /\ success' = success
            /\ pc' = "loop"
    /\ i' = 1
    /\ resolved_count' = 0
    /\ calls' = calls \cup {"diff --diff-filter=U"}
    /\ UNCHANGED <<mergeVars, repoVars, commit_result, exit_status, attempts, writers,
                   reported, raised, commits, runVars>>

\* resolve_readme_conflict (lines 57-78), called at line 176.
resolve_readme_conflict ==
    /\ pc = "loop"
    /\ i <= Len(conflicts)
    /\ classify(conflicts[i]) = "readme"
    /\ LET filepath == conflicts[i]
           result == show(mergeRev, filepath)
       IN  /\ attempts' = [attempts EXCEPT ![filepath] = Append(@, "readme")]
           /\ IF is_readme(filepath) /\ result.returncode = 0
              THEN \E w \in WritesOf(filepath), a \in AddsOf(filepath) :
                     /\ WriteAndStage(filepath, result.stdout, "readme", w, a)
                     /\ IF w = "ok" THEN Record(filepath, TRUE) ELSE Raise("OSError")
              ELSE /\ FallThrough
                   /\ calls' = calls \cup {"show"}
                   /\ UNCHANGED <<worktree, index, writers>>
    /\ UNCHANGED <<mergeVars, inRepo, merge_concluded, conflicts, self_conflicts,
                   success, commit_result, exit_status, commits, listing, runVars>>

\* resolve_json_conflict (lines 80-126), called at line 180.
resolve_json_conflict ==
    /\ pc = "loop"
    /\ i <= Len(conflicts)
    /\ classify(conflicts[i]) = "json"
    /\ LET filepath == conflicts[i]
           main_result == show(headRev, filepath)
           head_result == show(mergeRev, filepath)
       IN  /\ attempts' = [attempts EXCEPT ![filepath] = Append(@, "json")]
           /\ IF /\ is_json_config(filepath)
                 /\ main_result.returncode = 0
                 /\ head_result.returncode = 0
                 /\ ~json_loads_raises(main_result.stdout)
                 /\ ~json_loads_raises(head_result.stdout)
              THEN \E w \in WritesOf(filepath), a \in AddsOf(filepath) :
                     /\ WriteAndStage(filepath,
                            json_dump(merge_json(json_loads(main_result.stdout),
                                                 json_loads(head_result.stdout))),
                            "json", w, a)
                     \* an exception of the write is caught at line 124
                     /\ IF w = "ok" THEN Record(filepath, TRUE) ELSE FallThrough
              ELSE /\ FallThrough
                   /\ calls' = calls \cup {"show"}
                   /\ UNCHANGED <<worktree, index, writers>>
    /\ UNCHANGED <<mergeVars, inRepo, merge_concluded, conflicts, self_conflicts,
                   success, commit_result, exit_status, commits, listing, runVars>>

\* resolve_default_conflict (lines 138-155), called at line 184 when no other
\* strategy resolved the file.
resolve_default_conflict ==
    /\ \/ pc = "fallback"
       \/ /\ pc = "loop"
          /\ i <= Len(conflicts)
          /\ classify(conflicts[i]) = "default"
    /\ LET filepath == conflicts[i]
           result == show(headRev, filepath)
       IN  /\ attempts' = [attempts EXCEPT ![filepath] = Append(@, "default")]
           /\ IF result.returncode = 0
              THEN \E w \in WritesOf(filepath), a \in AddsOf(filepath) :
                     /\ WriteAndStage(filepath, result.stdout, "default", w, a)
                     /\ IF w = "ok" THEN Record(filepath, TRUE) ELSE Raise("OSError")
              ELSE /\ Record(filepath, FALSE)
                   /\ calls' = calls \cup {"show"}
                   /\ UNCHANGED <<worktree, index, writers>>
    /\ UNCHANGED <<mergeVars, inRepo, merge_concluded, conflicts, self_conflicts,
                   success, commit_result, exit_status, commits, listing, runVars>>

\* The end of resolve_all_conflicts (lines 191-192).
resolve_all_return ==
    /\ pc = "loop"
    /\ i > Len(conflicts)
    /\ success' = run_succeeded(resolved_count, conflicts)
    /\ pc' = "returned"
    /\ UNCHANGED <<mergeVars, repoVars, conflicts, self_conflicts, i, resolved_count,
                   commit_result, exit_status, histVars, runVars>>

----------------------------------------------------------------------------
(* commit_resolution and main.                                             *)

\* commit_resolution (lines 194-209), called at line 225.  `git commit` cannot
\* succeed while a path is unmerged, and can fail otherwise (a hook, no identity).
commit_resolution ==
    /\ pc = "returned"
    /\ success = TRUE
    /\ \E query_ok \in BOOLEAN, commit_ok \in BOOLEAN :
         LET stdout == IF query_ok THEN StagedPaths ELSE {}
         IN  IF stdout = {}
             THEN /\ commit_result' = TRUE
                  /\ calls' = calls \cup {"diff --cached"}
                  /\ UNCHANGED <<merge_concluded, commits>>
             ELSE /\ commits' = commits + 1
                  /\ calls' = calls \cup {"diff --cached", "commit"}
                  /\ commit_result' = (commit_ok /\ UnmergedPaths = {})
                  /\ merge_concluded' = (commit_ok /\ UnmergedPaths = {})
    /\ pc' = "committed"
    /\ UNCHANGED <<mergeVars, inRepo, worktree, index, conflicts, self_conflicts, i,
                   resolved_count, success, exit_status, attempts, writers,
                   reported, raised, listing, runVars>>

\* main, the success branch after the commit (lines 226-227).
main_exit_success ==
    /\ pc = "committed"
    /\ exit_status' = 0
    /\ pc' = "exited"
    /\ UNCHANGED <<mergeVars, repoVars, conflicts, self_conflicts, i, resolved_count,
                   success, commit_result, histVars, runVars>>

\* main, the failure branch (lines 228-230).
main_exit_failure ==
    /\ pc = "returned"
    /\ success = FALSE
    /\ exit_status' = 1
    /\ pc' = "exited"
    /\ UNCHANGED <<mergeVars, repoVars, conflicts, self_conflicts, i, resolved_count,
                   success, commit_result, histVars, runVars>>

\* main, the exception handler (lines 232-234).
main_except ==
    /\ pc = "raised"
    /\ exit_status' = 1
    /\ pc' = "exited"
    /\ UNCHANGED <<mergeVars, repoVars, conflicts, self_conflicts, i, resolved_count,
                   success, commit_result, histVars, runVars>>

\* Invocations of main() a repository sees.
MaxRuns == 2

\* No path is left unmerged and the invocation that ends here reported every
\* conflict resolved.
RunResolvedAll ==
    /\ pc = "exited"
    /\ raised = "none"
    /\ success = TRUE
    /\ UnmergedPaths = {}

\* The script is invoked again on the repository as the last invocation left
\* it: a new process, a new ConflictResolver (lines 212-218).
rerun ==
    /\ pc = "exited"
    /\ run < MaxRuns
    /\ run' = run + 1
    /\ prior_resolved' = (prior_resolved \/ RunResolvedAll)
    /\ pc' = "start"
    /\ conflicts' = <<>>
    /\ self_conflicts' = <<>>
    /\ i' = 1
    /\ resolved_count' = 0
    /\ success' = "none"
    /\ commit_result' = "none"
    /\ exit_status' = -1
    /\ attempts' = [p \in Tracked |-> <<>>]
    /\ writers' = [p \in Tracked |-> <<>>]
    /\ reported' = [p \in Tracked |-> "none"]
    /\ raised' = "none"
    /\ commits' = 0
    /\ calls' = {}
    /\ listing' = "none"
    /\ UNCHANGED <<mergeVars, repoVars, gateway>>

----------------------------------------------------------------------------
(* The run of main().                                                      *)

ProcessStart ==
    /\ pc = "start"
    /\ conflicts = <<>>
    /\ self_conflicts = <<>>
    /\ i = 1
    /\ resolved_count = 0
    /\ success = "none"
    /\ commit_result = "none"
    /\ exit_status = -1
    /\ attempts = [p \in Tracked |-> <<>>]
    /\ writers = [p \in Tracked |-> <<>>]
    /\ reported = [p \in Tracked |-> "none"]
    /\ raised = "none"
    /\ commits = 0
    /\ calls = {}
    /\ listing = "none"
    /\ run = 1
    /\ prior_resolved = FALSE

\* A merge of the two trees has stopped with at most MaxConflicts paths in
\* conflict; main() is about to start, inside the repository or outside any.
\* The repository is followed on the conflicted paths only: the run reads and
\* writes no other path.
InitRepository ==
    /\ main_data = NoData
    /\ head_data = NoData
    /\ merged_data = NoData
    /\ mpc = "off"
    /\ inRepo \in BOOLEAN
    /\ merge_concluded = FALSE
    /\ \E U \in SUBSET Paths :
         /\ Cardinality(U) <= MaxConflicts
         /\ ~inRepo => U = {}
         /\ index = [p \in U |-> Unmerged]
         /\ worktree = [p \in U |-> Markers]
    /\ ProcessStart

\* Every call meets any outcome.
Init ==
    /\ InitRepository
    /\ gateway = [p \in Tracked |-> AnyOutcome]

\* Inside a repository, with one behaviour of the environment per path, so
\* that runs differ in the order of the listing only.
InitOrder ==
    /\ InitRepository
    /\ inRepo
    /\ gateway \in [Tracked -> FixedOutcomes]

Next ==
    \/ construct
    \/ detect_conflicts
    \/ resolve_readme_conflict
    \/ resolve_json_conflict
    \/ resolve_default_conflict
    \/ resolve_all_return
    \/ commit_resolution
    \/ main_exit_success
    \/ main_exit_failure
    \/ main_except
    \/ rerun

Spec == Init /\ [][Next]_vars

SpecOrder == InitOrder /\ [][Next]_vars

----------------------------------------------------------------------------
(* The merge alone, on every pair of documents.                            *)

InitMerge ==
    /\ main_data \in Documents
    /\ head_data \in Documents
    /\ merged_data = NoData
    /\ mpc = "input"
    /\ inRepo = FALSE
    /\ merge_concluded = FALSE
    /\ index = <<>>
    /\ worktree = <<>>
    /\ ProcessStart
    /\ gateway = <<>>

\* Lines 100-111 of resolve_json_conflict on the two parsed documents.
merge_documents ==
    /\ mpc = "input"
    /\ merged_data' = merge_json(main_data, head_data)
    /\ mpc' = "merged"
    /\ UNCHANGED <<main_data, head_data, repoVars, procVars, histVars, runVars>>

NextMerge == merge_documents

SpecMerge == InitMerge /\ [][NextMerge]_vars

----------------------------------------------------------------------------
(* Properties of the merge (SpecMerge).                                    *)

\* Every key of d1 or d2 is a key of m, at every depth where both hold a dict.
RECURSIVE KeysKept(_, _, _)
KeysKept(d1, d2, m) ==
    /\ IsDict(m)
    /\ (DOMAIN d1.kv \cup DOMAIN d2.kv) \subseteq DOMAIN m.kv
    /\ \A k \in DOMAIN d1.kv \cap DOMAIN d2.kv :
         (IsDict(d1.kv[k]) /\ IsDict(d2.kv[k]))
            => KeysKept(d1.kv[k], d2.kv[k], m.kv[k])

\* C1: for dict-rooted documents D1 (current) and D2 (incoming) the merged
\* document holds every key of D1 and of D2, recursively wherever both sides
\* hold a dict under the same key.
C1_NoKeyDropped ==
    (mpc = "merged" /\ IsDict(main_data) /\ IsDict(head_data))
        => KeysKept(main_data, head_data, merged_data)

\* C1's case: merged dicts where the incoming side adds a key at the root and
\* a key inside a dict both sides hold.
C1_Witness ==
    /\ mpc = "merged"
    /\ IsDict(main_data) /\ IsDict(head_data)
    /\ DOMAIN head_data.kv \ DOMAIN main_data.kv # {}
    /\ \E k \in DOMAIN main_data.kv \cap DOMAIN head_data.kv :
         /\ IsDict(main_data.kv[k]) /\ IsDict(head_data.kv[k])
         /\ DOMAIN head_data.kv[k].kv \ DOMAIN main_data.kv[k].kv # {}

\* Under every key both d1 and d2 have, m holds d1's value unless both values
\* are dicts, and then the same holds one level down.
RECURSIVE CurrentWins(_, _, _)
CurrentWins(d1, d2, m) ==
    /\ IsDict(m)
    /\ \A k \in DOMAIN d1.kv \cap DOMAIN d2.kv :
         /\ k \in DOMAIN m.kv
         /\ IF IsDict(d1.kv[k]) /\ IsDict(d2.kv[k])
            THEN CurrentWins(d1.kv[k], d2.kv[k], m.kv[k])
            ELSE m.kv[k] = d1.kv[k]

\* C2: under every key both documents have with values that are not both dicts
\* the merged value is the current document's, and the merge of any two
\* documents completes (no type mismatch stops it).
C2_CurrentWinsConflicts ==
    /\ (mpc = "merged" /\ IsDict(main_data) /\ IsDict(head_data))
          => CurrentWins(main_data, head_data, merged_data)
    /\ mpc = "input" => ENABLED merge_documents

\* C2's case: a scalar against a different scalar under one key and a dict
\* against a non-dict under another.
C2_Witness ==
    /\ mpc = "merged"
    /\ IsDict(main_data) /\ IsDict(head_data)
    /\ \E k \in DOMAIN main_data.kv \cap DOMAIN head_data.kv :
         /\ main_data.kv[k].t = "num" /\ head_data.kv[k].t = "num"
         /\ main_data.kv[k] # head_data.kv[k]
    /\ \E k \in DOMAIN main_data.kv \cap DOMAIN head_data.kv :
         IsDict(main_data.kv[k]) /\ head_data.kv[k].t = "list"

----------------------------------------------------------------------------
(* Properties of the run (Spec).                                           *)

\* The paths of the list resolve_all_conflicts works through.
Detected == {conflicts[n] : n \in DOMAIN conflicts}

\* The final segment of a path.
last_segment(s) ==
    LET slashes == {n \in DOMAIN s : s[n] = "/"}
    IN  IF slashes = {} THEN s
        ELSE SubSeq(s, (CHOOSE n \in slashes : \A m \in slashes : m <= n) + 1, Len(s))

\* The documentation file: the final segment is "readme.md", case folded.
IsDocumentationFile(p) == lower(last_segment(Spelling(p))) = readme_md

\* C3: once resolve_all_conflicts has returned, every conflicted documentation
\* file that exists at MERGE_HEAD has the MERGE_HEAD content verbatim in the
\* working tree, has it staged, and is counted as resolved.
C3_IncomingPreserved ==
    pc = "returned" =>
        \A p \in Detected :
            (IsDocumentationFile(p) /\ mergeRev[p] # Missing)
                => /\ worktree[p] = mergeRev[p]
                   /\ index[p] = mergeRev[p]
                   /\ reported[p] = "resolved"

\* The classified strategy of p cannot succeed: a documentation file missing at
\* MERGE_HEAD, a structured file missing at a revision or not JSON.
ClassifiedStrategyFails(p) ==
    \/ IsDocumentationFile(p) /\ mergeRev[p] = Missing
    \/ /\ ~IsDocumentationFile(p)
       /\ is_json_config(p)
       /\ \/ headRev[p] = Missing
          \/ mergeRev[p] = Missing
          \/ headRev[p].t # "json"
          \/ mergeRev[p].t # "json"

\* C4: once resolve_all_conflicts has returned, every conflicted path whose
\* classified strategy fails has had PreferCurrent attempted next, and if the
\* path exists at HEAD it holds the HEAD content, staged, and is reported
\* resolved.
C4_FallbackToCurrent ==
    pc = "returned" =>
        \A p \in Detected :
            ClassifiedStrategyFails(p)
                => /\ Len(attempts[p]) = 2
                   /\ attempts[p][2] = "default"
                   /\ headRev[p] # Missing
                        => /\ worktree[p] = headRev[p]
                           /\ index[p] = headRev[p]
                           /\ reported[p] = "resolved"

\* C5: from the return of resolve_all_conflicts to the end of the run every
\* file reported resolved has the same content in the working tree and in the
\* index.
C5_ResolvedFilesStaged ==
    pc \in {"returned", "committed", "exited"} =>
        \A p \in Tracked : reported[p] = "resolved" => index[p] = worktree[p]

\* C6: no failure of a read, a write or a stage aborts the run: at the end every
\* path of the conflict list has been processed to an outcome.
C6_RunNeverAborted ==
    pc = "exited" => \A p \in Detected : reported[p] # "none"

\* C7: the first strategy called for a path is PreserveIncoming exactly when
\* the final segment of the path is "readme.md", case folded.
C7_ReadmeByFinalSegment ==
    \A p \in Tracked :
        attempts[p] # <<>> => (attempts[p][1] = "readme" <=> IsDocumentationFile(p))

\* The paths that match the documentation rule and the structured-config rule.
MatchBothRules == {p \in Paths : IsDocumentationFile(p) /\ is_json_config(p)}

\* C8: for a path that matches the documentation rule and the structured-config
\* rule PreserveIncoming is the strategy attempted, the structured merge is
\* never attempted, and the only attempt after it is PreferCurrent.
C8_DocumentationTakesPrecedence ==
    \A p \in Tracked \cap MatchBothRules :
        /\ attempts[p] \in {<<>>, <<"readme">>, <<"readme", "default">>}
        /\ reported[p] # "none" => attempts[p] # <<>>

\* C8's case: a path matching both rules, missing at MERGE_HEAD, resolved by the
\* fallback, and another one resolved by PreserveIncoming.
C8_Witness ==
    /\ \E p \in Tracked \cap MatchBothRules :
         /\ attempts[p] = <<"readme", "default">>
         /\ reported[p] = "resolved"
    /\ \E p \in Tracked \cap MatchBothRules :
         /\ attempts[p] = <<"readme">>
         /\ reported[p] = "resolved"

\* C9: resolve_all_conflicts returns True exactly when every path of the
\* detected conflict list was resolved, by its strategy or by the fallback; in
\* particular it returns True for an empty list.
C9_SuccessIffAllResolved ==
    pc = "returned" =>
        /\ success = TRUE <=> \A p \in Detected : reported[p] = "resolved"
        /\ conflicts = <<>> => success = TRUE

\* C9's case: a run that resolved one path through the fallback, left another
\* unresolved, and returned False.
C9_Witness ==
    /\ pc = "returned"
    /\ success = FALSE
    /\ \E p \in Detected : reported[p] = "resolved" /\ Len(attempts[p]) = 2
    /\ \E p \in Detected : reported[p] = "unresolved"

\* C10: the process exits with status 0 only if every conflict was resolved
\* and, when a commit was attempted, the commit succeeded.
C10_ExitZeroOnlyOnSuccess ==
    (pc = "exited" /\ exit_status = 0) =>
        /\ \A p \in Detected : reported[p] = "resolved"
        /\ commits > 0 => commit_result = TRUE

----------------------------------------------------------------------------
(* C11: an invocation outside a managed repository.                        *)

\* The Gateway operations that belong to a resolution attempt: everything
\* after the repository root query.
ResolutionCalls == {"diff --diff-filter=U", "show", "write", "add", "diff --cached", "commit"}

NoResolutionAttempt ==
    /\ calls \cap ResolutionCalls = {}
    /\ listing = "none"
    /\ commits = 0
    /\ \A p \in Tracked : writers[p] = <<>>

\* C11 as stated: outside a managed repository the invocation makes no
\* resolution attempt (no conflict listing, no file write, no stage, no commit)
\* and the process exits with status 0.
C11_ExitZeroOutsideRepository ==
    ~inRepo =>
        /\ NoResolutionAttempt
        /\ pc = "exited" => exit_status = 0

\* C11, amended: outside a managed repository the invocation makes no
\* resolution attempt (no conflict listing, no file write, no stage, no commit)
\* and the process exits with status 1.
C11_NoAttemptOutsideRepository ==
    ~inRepo =>
        /\ NoResolutionAttempt
        /\ pc \in {"start", "raised", "exited"}
        /\ pc = "exited" => exit_status = 1

\* C11's case: an invocation outside a repository that has run to its exit.
C11_Witness ==
    /\ ~inRepo
    /\ pc = "exited"
    /\ raised = "RuntimeError"
    /\ calls = {"rev-parse"}

----------------------------------------------------------------------------
(* C12: running the resolver again on a resolved repository.               *)

\* C12: after a run in which every conflict was resolved (the run reported
\* success and no path is left unmerged), every later run detects zero
\* conflicts, reports success, exits with status 0, and no step of it changes
\* a working-tree file or the index.
C12_RerunChangesNothing ==
    [][prior_resolved' =>
          /\ worktree' = worktree
          /\ index' = index
          /\ conflicts' = <<>>
          /\ UnmergedPaths' = {}
          /\ pc' \notin {"loop", "fallback", "raised"}
          /\ pc' \in {"returned", "committed", "exited"} => success' = TRUE
          /\ pc' = "exited" => exit_status' = 0]_vars

\* C12's case: the second run on a repository whose two conflicts the first
\* run resolved has exited.
C12_Witness ==
    /\ prior_resolved
    /\ run = 2
    /\ pc = "exited"
    /\ listing = "ok"
    /\ Cardinality(Tracked) = 2
    /\ \A p \in Tracked : index[p] = worktree[p]

----------------------------------------------------------------------------
(* C13: one writer per resolved path.                                      *)

\* C13: in every run, each conflicted path that ends up resolved has had its
\* working-tree file written by exactly one strategy: it is not written by its
\* classified strategy and then written again by the fallback, and it is not
\* left written by no strategy.
C13_ExactlyOneWriter ==
    \A p \in Tracked :
        reported[p] = "resolved" => Len(writers[p]) = 1

----------------------------------------------------------------------------
(* C14: the result of commit_resolution.                                   *)

\* commit_resolution leaves the index alone and HEAD moves only when its
\* commit succeeds, so after the call the staged paths are those staged before
\* it unless the commit went through.
CommitSucceeded == commits > 0 /\ merge_concluded
NothingWasStaged == ~CommitSucceeded /\ StagedPaths = {}

\* C14: commit_resolution attempts a commit only when the index holds staged
\* content, and it returns True if and only if nothing was staged or the
\* commit succeeded; a failed staged-content query is not reported as success.
C14_CommitResult ==
    pc = "committed" =>
        /\ commits > 0 => (CommitSucceeded \/ StagedPaths # {})
        /\ commit_result = TRUE <=> (NothingWasStaged \/ CommitSucceeded)

----------------------------------------------------------------------------
(* C16: a conflict listing that fails.                                     *)

\* C16: when the conflict listing fails while conflicted files exist,
\* detect_conflicts returns the empty list and leaves the stored conflict list
\* as it was, resolve_all_conflicts returns True with no file read, written or
\* staged, and the process exits with status 0, as a run with no conflicts
\* does.
C16_ListingFailureReportsSuccess ==
    (listing = "failed" /\ UnmergedPaths # {}) =>
        /\ conflicts = <<>>
        /\ self_conflicts = <<>>
        /\ success = TRUE
        /\ pc \in {"returned", "committed", "exited"}
        /\ calls \cap {"show", "write", "add"} = {}
        /\ \A p \in Tracked : attempts[p] = <<>> /\ writers[p] = <<>>
        /\ raised = "none"
        /\ pc = "exited" => exit_status = 0

\* C16's case: a run whose listing failed has exited while two paths are
\* still unmerged.
C16_Witness ==
    /\ listing = "failed"
    /\ Cardinality(UnmergedPaths) = 2
    /\ pc = "exited"
    /\ run = 1

----------------------------------------------------------------------------
(* C15: the order of the listing (SpecOrder).                              *)

\* What one pass of the loop body (lines 171-189) leaves of a conflicted path
\* under the path's own environment, when no other path is resolved before
\* it: the file, the index entry, and the outcome the run reports.
write_alone(filepath, content, before, on_failure) ==
    LET g == gateway[filepath]
    IN  IF g.w = "ok"
        THEN [worktree |-> content,
              index |-> IF g.a THEN content ELSE Unmerged,
              reported |-> "resolved"]
        ELSE on_failure[IF g.w = "write_fails" THEN Truncated ELSE before]

default_alone(filepath, before) ==
    LET result == show(headRev, filepath)
    IN  IF result.returncode = 0
        THEN write_alone(filepath, result.stdout, before,
                 [b \in {before, Truncated} |->
                     [worktree |-> b, index |-> Unmerged, reported |-> "none"]])
        ELSE [worktree |-> before, index |-> Unmerged, reported |-> "unresolved"]

readme_alone(filepath) ==
    LET result == show(mergeRev, filepath)
    IN  IF result.returncode = 0
        THEN write_alone(filepath, result.stdout, Markers,
                 [b \in {Markers, Truncated} |->
                     [worktree |-> b, index |-> Unmerged, reported |-> "none"]])
        ELSE default_alone(filepath, Markers)

json_alone(filepath) ==
    LET main_result == show(headRev, filepath)
        head_result == show(mergeRev, filepath)
    IN  IF /\ main_result.returncode = 0
           /\ head_result.returncode = 0
           /\ ~json_loads_raises(main_result.stdout)
           /\ ~json_loads_raises(head_result.stdout)
        THEN write_alone(filepath,
                 json_dump(merge_json(json_loads(main_result.stdout),
                                      json_loads(head_result.stdout))),
                 Markers,
                 [b \in {Markers, Truncated} |-> default_alone(filepath, b)])
        ELSE default_alone(filepath, Markers)

resolve_alone(filepath) ==
    IF classify(filepath) = "readme" THEN readme_alone(filepath)
    ELSE IF classify(filepath) = "json" THEN json_alone(filepath)
    ELSE default_alone(filepath, Markers)

\* The result of a path in this state.
ResultOf(p) ==
    [worktree |-> worktree[p], index |-> index[p], reported |-> reported[p]]

\* resolve_all_conflicts is over: it returned, or an exception left it.
ResolveAllOver == pc \in {"returned", "raised"} /\ listing = "ok" /\ run = 1

\* C15: after resolve_all_conflicts the working-tree content, the staged
\* content and the resolved/unresolved outcome of every conflicted path are
\* what resolving that path alone yields under the same behaviour of the
\* environment, whatever the order of the listing: resolving a path does not
\* change the result of another.
C15_OrderIndependent ==
    ResolveAllOver => \A p \in Detected : ResultOf(p) = resolve_alone(p)

\* The same, for the runs of resolve_all_conflicts that return.
OrderIndependentWhenReturned ==
    (ResolveAllOver /\ pc = "returned") =>
        \A p \in Detected : ResultOf(p) = resolve_alone(p)

\* An exception leaves the path it was raised on, and the paths before it in
\* the listing, with their own results.
OrderIndependentUpToRaise ==
    (ResolveAllOver /\ pc = "raised") =>
        \A k \in 1..i : ResultOf(conflicts[k]) = resolve_alone(conflicts[k])

====
